---- MODULE Spec2Model ----
(***************************************************************************)
(* Model of armnn's reference Resize workload                              *)
(* (src/backends/reference/workloads/Resize.cpp).                          *)
(*                                                                         *)
(* Resize() walks the output tensor in (n, c, y, x) order, projects the    *)
(* top-left corner of every output texel into the input image with         *)
(* single-precision arithmetic, reads one (NearestNeighbor) or four        *)
(* (Bilinear) input samples through the Decoder and writes one value       *)
(* through the Encoder.                                                    *)
(*                                                                         *)
(* The C++ `float` is modelled as an IEEE-754 binary32 value: a sign, a    *)
(* 24-bit significand and an exponent, with round-to-nearest-even after    *)
(* every operation, plus the infinities and NaN.  The exponent range is    *)
(* not bounded: every quantity of the model stays far from overflow and    *)
(* underflow.  Every operation rounds on its own (no fused multiply-add).  *)
(***************************************************************************)
EXTENDS Integers, Sequences, FiniteSets, TLC

(***************************************************************************)
(* IEEE-754 binary32                                                       *)
(***************************************************************************)

\* Width of the significand of `float` (FLT_MANT_DIG).
MantBits == 24

\* Extra low-order bits kept below a significand while a result is formed,
\* before it is rounded.
GuardBits == MantBits \div 4

\* Number of significant bits of the natural number v < 4.
BitLen2(v) == IF v >= 2 THEN 2 ELSE v
\* ... of v < 16.
BitLen4(v) == (IF v >= 4 THEN 2 ELSE 0) + BitLen2(IF v >= 4 THEN v \div 4 ELSE v)
\* ... of v < 256.
BitLen8(v) == (IF v >= 16 THEN 4 ELSE 0) + BitLen4(IF v >= 16 THEN v \div 16 ELSE v)
\* ... of v < 65536.
BitLen16(v) == (IF v >= 256 THEN 8 ELSE 0) + BitLen8(IF v >= 256 THEN v \div 256 ELSE v)
\* ... of v < 2^31.
BitLen(v) == (IF v >= 65536 THEN 16 ELSE 0) + BitLen16(IF v >= 65536 THEN v \div 65536 ELSE v)

\* v / 2^sh rounded to the nearest integer, ties to the even one.
RoundNE(v, sh) ==
    LET q    == v \div (2 ^ sh)
        r    == v % (2 ^ sh)
        half == 2 ^ (sh - 1)
    IN  IF sh = 0 THEN v
        ELSE IF r > half \/ (r = half /\ q % 2 = 1) THEN q + 1 ELSE q

\* The float (-1)^s * 0.
FZero(s) == [cls |-> "num", sign |-> s, man |-> 0, exp |-> 0]
\* The float (-1)^s * infinity.
FInf(s) == [cls |-> "inf", sign |-> s, man |-> 0, exp |-> 0]
\* The quiet NaN (one representative: the payload is never observed).
FNaN == [cls |-> "nan", sign |-> 0, man |-> 0, exp |-> 0]

\* The float (-1)^s * q * 2^e, for a q that rounding has left with MantBits
\* bits, or carried to 2^MantBits.
Rounded(s, q, e) ==
    IF q = 2 ^ MantBits
    THEN [cls |-> "num", sign |-> s, man |-> 2 ^ (MantBits - 1), exp |-> e + 1]
    ELSE [cls |-> "num", sign |-> s, man |-> q, exp |-> e]

\* The float nearest to (-1)^s * v * 2^e, for a v # 0 of MantBits + sh bits.
Normalized(s, v, e, sh) ==
    IF sh <= 0
    THEN [cls |-> "num", sign |-> s, man |-> v * 2 ^ (-sh), exp |-> e + sh]
    ELSE Rounded(s, RoundNE(v, sh), e + sh)

\* The float nearest to (-1)^s * v * 2^e, for a natural v; a set low bit of
\* v may stand for discarded non-zero bits below it (sticky bit).
MakeFloat(s, v, e) ==
    IF v = 0 THEN FZero(s) ELSE Normalized(s, v, e, BitLen(v) - MantBits)

\* boost::numeric_cast<float>(unsigned int): nearest float to the integer.
FromUInt(v) == MakeFloat(0, v, 0)

\* Unary minus.
FNeg(a) == IF a.cls = "nan" THEN a ELSE [a EXCEPT !.sign = 1 - a.sign]

IsZero(a) == a.cls = "num" /\ a.man = 0

RECURSIVE LongDiv(_, _, _, _)
\* k more binary digits of the quotient q (remainder r) of a division by d:
\* the pair <<quotient, remainder>>.
LongDiv(q, r, d, k) ==
    IF k = 0 THEN <<q, r>>
    ELSE IF 2 * r >= d THEN LongDiv(2 * q + 1, 2 * r - d, d, k - 1)
         ELSE LongDiv(2 * q, 2 * r, d, k - 1)

\* The quotient of the significands am and bm to MantBits + 2 digits, the
\* first of them q0, with the remainder.
DivDigits(am, bm, q0) == LongDiv(q0, am - q0 * bm, bm, MantBits + 1)

\* The float of sign s nearest to qr[1] * 2^(e + 1), with a sticky bit for a
\* non-zero remainder qr[2].
DivRound(s, qr, e) == MakeFloat(s, 2 * qr[1] + (IF qr[2] = 0 THEN 0 ELSE 1), e)

\* a / b in float arithmetic.
FDiv(a, b) ==
    LET s == (a.sign + b.sign) % 2
    IN  IF a.cls = "nan" \/ b.cls = "nan" THEN FNaN
        ELSE IF a.cls = "inf" THEN (IF b.cls = "inf" THEN FNaN ELSE FInf(s))
        ELSE IF b.cls = "inf" THEN FZero(s)
        ELSE IF IsZero(b) THEN (IF IsZero(a) THEN FNaN ELSE FInf(s))
        ELSE IF IsZero(a) THEN FZero(s)
        ELSE DivRound(s, DivDigits(a.man, b.man, IF a.man >= b.man THEN 1 ELSE 0),
                      a.exp - b.exp - (MantBits + 2))

\* 2^12: a significand is split into two halves of 12 bits.
HalfUnit == 2 ^ (MantBits \div 2)

\* The float of sign s nearest to (hi * 2^MantBits + lo) * 2^(e + 1 + GuardBits
\* - MantBits): the product is cut to its high word, GuardBits bits of the low
\* word and a sticky bit for the rest.
MulRound(s, hi, lo, e) ==
    LET cut == 2 ^ (MantBits - GuardBits)
    IN  MakeFloat(s, 2 * (hi * (2 ^ GuardBits) + (lo \div cut))
                        + (IF lo % cut = 0 THEN 0 ELSE 1), e)

\* The carry of the low word into the high word.
MulCarry(s, hi, low, e) ==
    MulRound(s, hi + (low \div (2 ^ MantBits)), low % (2 ^ MantBits), e)

\* The 48-bit product as hi * 2^24 + low, from the partial products
\* hh * 2^24 + mid * 2^12 + ll.
MulParts(s, hh, mid, ll, e) ==
    MulCarry(s, hh + (mid \div HalfUnit), ll + (mid % HalfUnit) * HalfUnit, e)

\* The product of the significands ah * 2^12 + al and bh * 2^12 + bl.
MulFinite(s, ah, al, bh, bl, e) ==
    MulParts(s, ah * bh, ah * bl + al * bh, al * bl, e)

\* a * b in float arithmetic.
FMul(a, b) ==
    LET s == (a.sign + b.sign) % 2
    IN  IF a.cls = "nan" \/ b.cls = "nan" THEN FNaN
        ELSE IF a.cls = "inf" \/ b.cls = "inf"
             THEN (IF IsZero(a) \/ IsZero(b) THEN FNaN ELSE FInf(s))
        ELSE IF IsZero(a) \/ IsZero(b) THEN FZero(s)
        ELSE MulFinite(s, a.man \div HalfUnit, a.man % HalfUnit,
                       b.man \div HalfUnit, b.man % HalfUnit,
                       a.exp + b.exp + (MantBits - GuardBits) - 1)

\* The significand m shifted right by sh places (left by -sh), its last bit
\* standing for every non-zero bit shifted out.
Aligned(m, sh) ==
    IF sh <= 0 THEN m * (2 ^ (-sh))
    ELSE IF sh > MantBits THEN 1
    ELSE IF m % (2 ^ sh) = 0 THEN m \div (2 ^ sh)
    ELSE ((m \div (2 ^ sh)) \div 2) * 2 + 1

\* The float nearest to ((-1)^sa * A + (-1)^sb * B) * 2^e.
AddSigned(sa, A, sb, B, e) ==
    IF sa = sb THEN MakeFloat(sa, A + B, e)
    ELSE IF A = B THEN FZero(0)
    ELSE MakeFloat(IF A > B THEN sa ELSE sb, IF A > B THEN A - B ELSE B - A, e)

\* Sum of two finite non-zero floats, hi being the one of larger exponent.
AddFinite(hi, lo) ==
    AddSigned(hi.sign, hi.man * (2 ^ GuardBits),
              lo.sign, Aligned(lo.man, hi.exp - lo.exp - GuardBits),
              hi.exp - GuardBits)

\* a + b in float arithmetic.
FAdd(a, b) ==
    IF a.cls = "nan" \/ b.cls = "nan" THEN FNaN
    ELSE IF a.cls = "inf"
         THEN (IF b.cls = "inf" /\ b.sign # a.sign THEN FNaN ELSE a)
    ELSE IF b.cls = "inf" THEN b
    ELSE IF IsZero(a) /\ IsZero(b)
         THEN (IF a.sign = 1 /\ b.sign = 1 THEN FZero(1) ELSE FZero(0))
    ELSE IF IsZero(a) THEN b
    ELSE IF IsZero(b) THEN a
    ELSE AddFinite(IF a.exp >= b.exp THEN a ELSE b, IF a.exp >= b.exp THEN b ELSE a)

\* a - b in float arithmetic.
FSub(a, b) == FAdd(a, FNeg(b))

\* floorf of a float that is not negative (every coordinate is a product of
\* two converted unsigned values).
FloorF(a) ==
    IF a.cls # "num" \/ a.man = 0 \/ a.exp >= 0 THEN a
    ELSE IF -a.exp >= MantBits THEN FZero(0)
    ELSE MakeFloat(0, a.man \div (2 ^ (-a.exp)), 0)

\* The integer value of an integer-valued finite float, with its sign.
ToInt(a) ==
    (IF a.sign = 1 THEN -1 ELSE 1)
        * (IF a.exp >= 0 THEN a.man * (2 ^ a.exp) ELSE a.man \div (2 ^ (-a.exp)))

\* boost::numeric_cast<unsigned int>(float) of a non-negative integer-valued float.
ToUInt(a) == ToInt(a)

\* 1.f
One == MakeFloat(0, 1, 0)

(***************************************************************************)
(* Collaborators of the kernel: TensorShape, DataLayoutIndexed and the     *)
(* Decoder/Encoder pair.  Tuples are indexed from 1 where C++ indexes from *)
(* 0.                                                                      *)
(***************************************************************************)

DataLayouts == {"NCHW", "NHWC"}

\* The TensorShape of a tensor of nn batches, cc channels, hh rows and ww
\* columns in the given layout.
MakeShape(layout, nn, cc, hh, ww) ==
    IF layout = "NCHW" THEN <<nn, cc, hh, ww>> ELSE <<nn, hh, ww, cc>>

GetChannelsIndex(layout) == IF layout = "NCHW" THEN 2 ELSE 4
GetHeightIndex(layout) == IF layout = "NCHW" THEN 3 ELSE 2
GetWidthIndex(layout) == IF layout = "NCHW" THEN 4 ELSE 3

\* Flat offset of the element (b, ch, h, w) of a tensor of the given shape.
GetIndex(layout, shape, b, ch, h, w) ==
    IF layout = "NCHW"
    THEN ((b * shape[2] + ch) * shape[3] + h) * shape[4] + w
    ELSE ((b * shape[2] + h) * shape[3] + w) * shape[4] + ch

GetNumElements(shape) == shape[1] * shape[2] * shape[3] * shape[4]

(***************************************************************************)
(* Bounds of the model                                                     *)
(***************************************************************************)

\* Largest batch count.
MaxBatch == 2
\* Largest channel count.
MaxChannels == 2
\* Largest height or width of a small input tensor.
MaxInput == 2
\* Largest height or width of a small output tensor.
MaxOutput == 3
\* The tall tensors of SpecElement have heights 2^24 + 1 .. 2^24 + MaxExcess.
MaxExcess == 2
\* The finite input samples are 1.0 .. ValuePeriod.0, one per logical
\* element, repeating with this period.
ValuePeriod == 97

ResizeMethods == {"Bilinear", "NearestNeighbor", "Unknown"}

Min(a, b) == IF a <= b THEN a ELSE b

(***************************************************************************)
(* State                                                                   *)
(***************************************************************************)

VARIABLES
    inputInfo,      \* shape of the input tensor
    outputInfo,     \* shape of the output tensor
    dataLayout,     \* "NCHW" or "NHWC"
    resizeMethod,   \* the interpolation method
    scaleY, scaleX, \* input pixels per output pixel, along each axis
    inData,         \* memory behind the Decoder: the logical elements holding +inf
    outData,        \* memory behind the Encoder: offset -> value, where Set has run
    n, c, y, x,     \* the loop variables
    samples,        \* the input samples read in the latest pass of the loop body
    interpolatedValue, \* the value computed in the latest pass of the loop body
    pc,             \* "loop", "done" (returned) or "fault" (aborted in a read)
    trace           \* the Decoder and Encoder accesses made so far, in order

args == <<inputInfo, outputInfo, dataLayout, resizeMethod, inData>>
vars == <<inputInfo, outputInfo, dataLayout, resizeMethod, scaleY, scaleX,
          inData, outData, n, c, y, x, samples, interpolatedValue, pc, trace>>

batchSize == inputInfo[1]
channelCount == inputInfo[GetChannelsIndex(dataLayout)]
inputHeight == inputInfo[GetHeightIndex(dataLayout)]
inputWidth == inputInfo[GetWidthIndex(dataLayout)]
outputHeight == outputInfo[GetHeightIndex(dataLayout)]
outputWidth == outputInfo[GetWidthIndex(dataLayout)]

\* Position of the logical input element (nn, cc, hh, ww) in batch, channel,
\* row, column order: the identity of the element, whatever the layout.
Rank(nn, cc, hh, ww) ==
    ((nn * channelCount + cc) * inputHeight + hh) * inputWidth + ww

\* The value of the logical input element of the given rank.
SampleValue(r) == IF r \in inData THEN FInf(0) ELSE FromUInt(1 + (r % ValuePeriod))

\* The value of the logical input element (nn, cc, hh, ww).
InputAt(nn, cc, hh, ww) == SampleValue(Rank(nn, cc, hh, ww))

\* The rank of the logical element stored at offset idx of the input buffer,
\* when the tensor is laid out in the given layout.
RankAtOffset(layout, idx) ==
    IF layout = "NCHW" THEN idx
    ELSE LET cc == idx % channelCount
             ww == (idx \div channelCount) % inputWidth
             hh == (idx \div (channelCount * inputWidth)) % inputHeight
             nn == idx \div (channelCount * inputWidth * inputHeight)
         IN  Rank(nn, cc, hh, ww)

\* An aborted read.
Trap == [cls |-> "trap", sign |-> 0, man |-> 0, exp |-> 0]

\* What a read outside the input buffer may yield: the call is aborted, or
\* some value that happens to be there.
Undefined == {Trap, FZero(0), FNaN}

\* in[idx]; in.Get(): the possible results, for an input tensor of the given
\* layout and shape.
DecoderGet(layout, shape, idx) ==
    IF idx < GetNumElements(shape) THEN {SampleValue(RankAtOffset(layout, idx))}
    ELSE Undefined

(***************************************************************************)
(* Resize                                                                  *)
(***************************************************************************)

\* The scale from output to input coordinates along one axis.
ScaleOf(inSize, outSize) == FDiv(FromUInt(inSize), FromUInt(outSize))

\* Projection of the output coordinate pos into the input image:
\* i = iy or ix, fi = fiy or fix, i0 = y0 or x0, w = yw or xw, i1 = y1 or x1.
TexelCorner(i, fi, i0, inSize) ==
    [i |-> i, fi |-> fi, i0 |-> i0, w |-> FSub(i, fi), i1 |-> Min(i0 + 1, inSize - 1)]

TexelFloor(i, fi, inSize) == TexelCorner(i, fi, ToUInt(fi), inSize)

TexelAt(i, inSize) == TexelFloor(i, FloorF(i), inSize)

Texel(pos, scale, inSize) == TexelAt(FMul(FromUInt(pos), scale), inSize)

TexelY(yy) == Texel(yy, scaleY, inputHeight)
TexelX(xx) == Texel(xx, scaleX, inputWidth)

\* Lerp with its end points exchanged.
LerpSwapped(a, b, w) == FAdd(FMul(w, a), FMul(FSub(One, w), b))

Lerp(a, b, w) == FAdd(FMul(w, b), FMul(FSub(One, w), a))

\* pow(v, 2)
Square(v) == v * v

\* The square of std::sqrt(pow(fx - px, 2) + pow(fy - py, 2)).  The code
\* compares two such roots with <=; the squares, which are small integers,
\* compare the same way.
Distance(fx, fy, px, py) ==
    Square(ToInt(FSub(fx, FromUInt(px)))) + Square(ToInt(FSub(fy, FromUInt(py))))

\* The comparison of the distances with its operands exchanged.
NearestReversed(distance0, distance1, p0, p1) ==
    IF distance1 <= distance0 THEN p0 ELSE p1

\* distance0 <= distance1 ? p0 : p1
Nearest(distance0, distance1, p0, p1) == IF distance0 <= distance1 THEN p0 ELSE p1

\* The input offset computed as if every tensor were channel-first.
InIndexChannelFirst(layout, inputShape, nn, cc, hh, ww) ==
    ((nn * channelCount + cc) * inputHeight + hh) * inputWidth + ww

\* The input offset with the row and the column exchanged.
InIndexTransposed(layout, inputShape, nn, cc, hh, ww) ==
    GetIndex(layout, inputShape, nn, cc, ww, hh)

\* layout.GetIndex(inputShape, nn, cc, hh, ww)
InIndex(layout, inputShape, nn, cc, hh, ww) ==
    GetIndex(layout, inputShape, nn, cc, hh, ww)

\* The output offset computed with the shape of the input.
OutIndexOfInputShape(nn, cc, hh, ww) == GetIndex(dataLayout, inputInfo, nn, cc, hh, ww)

\* dataLayout.GetIndex(outputShape, nn, cc, hh, ww)
OutIndex(nn, cc, hh, ww) == GetIndex(dataLayout, outputInfo, nn, cc, hh, ww)

\* The loops with the column loop outside the row loop.
NextCoordColumnMajor(coord) ==
    LET nn == coord[1]
        cc == coord[2]
        yy == coord[3]
        xx == coord[4]
    IN  IF yy + 1 < outputHeight THEN <<nn, cc, yy + 1, xx>>
        ELSE IF xx + 1 < outputWidth THEN <<nn, cc, 0, xx + 1>>
        ELSE IF cc + 1 < channelCount THEN <<nn, cc + 1, 0, 0>>
        ELSE IF nn + 1 < batchSize THEN <<nn + 1, 0, 0, 0>>
        ELSE <<>>

\* The coordinate the loops visit after coord; <<>> after the last one.
NextCoord(coord) ==
    LET nn == coord[1]
        cc == coord[2]
        yy == coord[3]
        xx == coord[4]
    IN  IF xx + 1 < outputWidth THEN <<nn, cc, yy, xx + 1>>
        ELSE IF yy + 1 < outputHeight THEN <<nn, cc, yy + 1, 0>>
        ELSE IF cc + 1 < channelCount THEN <<nn, cc + 1, 0, 0>>
        ELSE IF nn + 1 < batchSize THEN <<nn + 1, 0, 0, 0>>
        ELSE <<>>

\* One access of the Decoder (op = "read") or the Encoder (op = "write"):
\* the offset, and the output element being computed.
Access(op, idx, at) == [op |-> op, idx |-> idx, at |-> at]

\* One input sample: the row and column that were given to GetIndex, the
\* offset it returned and the value in.Get() returned.
Sample(row, col, idx, val) == [row |-> row, col |-> col, idx |-> idx, val |-> val]

RECURSIVE UpToTrap(_)
\* The reads that happen: those up to the first aborted one.
UpToTrap(reads) ==
    IF reads = <<>> THEN <<>>
    ELSE IF Head(reads).val = Trap THEN <<Head(reads)>>
    ELSE <<Head(reads)>> \o UpToTrap(Tail(reads))

\* The Decoder accesses of the given reads, made for the output element at.
ReadAccesses(reads, at) == [k \in 1..Len(reads) |-> Access("read", reads[k].idx, at)]

\* The end of one pass of the loop body: the reads have been made; unless
\* one of them aborted the call, the value goes to the output at
\* (n, c, y, x) and the loops advance.
Store(reads, value) ==
    LET fault == value = Trap
        here  == <<n, c, y, x>>
        idx   == OutIndex(n, c, y, x)
        next  == NextCoord(here)
    IN  /\ UNCHANGED <<args, scaleY, scaleX>>
        /\ IF fault
           THEN /\ pc' = "fault"
                /\ samples' = UpToTrap(reads)
                /\ trace' = trace \o ReadAccesses(UpToTrap(reads), here)
                /\ UNCHANGED <<outData, interpolatedValue, n, c, y, x>>
           ELSE /\ samples' = reads
                /\ interpolatedValue' = value
                /\ trace' = trace \o ReadAccesses(reads, here)
                              \o <<Access("write", idx, here)>>
                /\ outData' = (idx :> value) @@ outData
                /\ IF next = <<>>
                   THEN pc' = "done" /\ UNCHANGED <<n, c, y, x>>
                   ELSE /\ pc' = "loop"
                        /\ n' = next[1]
                        /\ c' = next[2]
                        /\ y' = next[3]
                        /\ x' = next[4]

\* The loop body, case ResizeMethod::Bilinear, at the output element at, for
\* an input tensor of the given layout and shape: the possible outcomes,
\* each the reads made and the interpolatedValue.
Bilinear(layout, inputShape, at) ==
    LET ty == TexelY(at[3])
        tx == TexelX(at[4])
        y0 == ty.i0
        y1 == ty.i1
        x0 == tx.i0
        x1 == tx.i1
        i1 == InIndex(layout, inputShape, at[1], at[2], y0, x0)
        i2 == InIndex(layout, inputShape, at[1], at[2], y0, x1)
        i3 == InIndex(layout, inputShape, at[1], at[2], y1, x0)
        i4 == InIndex(layout, inputShape, at[1], at[2], y1, x1)
        Result(input1, input2, input3, input4) ==
            LET ly0 == Lerp(input1, input2, tx.w)
                ly1 == Lerp(input3, input4, tx.w)
            IN  [reads |-> <<Sample(y0, x0, i1, input1),
                             Sample(y0, x1, i2, input2),
                             Sample(y1, x0, i3, input3),
                             Sample(y1, x1, i4, input4)>>,
                 interpolatedValue |->
                     IF Trap \in {input1, input2, input3, input4} THEN Trap
                     ELSE Lerp(ly0, ly1, ty.w)]
    IN  {Result(input1, input2, input3, input4) :
            input1 \in DecoderGet(layout, inputShape, i1),
            input2 \in DecoderGet(layout, inputShape, i2),
            input3 \in DecoderGet(layout, inputShape, i3),
            input4 \in DecoderGet(layout, inputShape, i4)}

\* The loop body, case ResizeMethod::NearestNeighbor and default.
NearestNeighbor(layout, inputShape, at) ==
    LET ty == TexelY(at[3])
        tx == TexelX(at[4])
        distance0 == Distance(tx.fi, ty.fi, tx.i0, ty.i0)
        distance1 == Distance(tx.fi, ty.fi, tx.i1, ty.i1)
        xNearest == Nearest(distance0, distance1, tx.i0, tx.i1)
        yNearest == Nearest(distance0, distance1, ty.i0, ty.i1)
        idx == InIndex(layout, inputShape, at[1], at[2], yNearest, xNearest)
    IN  {[reads |-> <<Sample(yNearest, xNearest, idx, input)>>,
          interpolatedValue |-> input] :
            input \in DecoderGet(layout, inputShape, idx)}

\* The switch on resizeMethod.
Interpolate(layout, inputShape, at) ==
    IF resizeMethod = "Bilinear" THEN Bilinear(layout, inputShape, at)
    ELSE NearestNeighbor(layout, inputShape, at)

\* One pass of the loop body, case ResizeMethod::Bilinear.
BilinearBody ==
    /\ pc = "loop"
    /\ resizeMethod = "Bilinear"
    /\ \E r \in Bilinear(dataLayout, inputInfo, <<n, c, y, x>>) :
           Store(r.reads, r.interpolatedValue)

\* One pass of the loop body, case ResizeMethod::NearestNeighbor and default.
NearestBody ==
    /\ pc = "loop"
    /\ resizeMethod # "Bilinear"
    /\ \E r \in NearestNeighbor(dataLayout, inputInfo, <<n, c, y, x>>) :
           Store(r.reads, r.interpolatedValue)

Next == BilinearBody \/ NearestBody

\* The elements that may hold +infinity in a tensor of the given size:
\* none, or the last one.
Specials(size) == {{}, {size - 1}}

\* A call of Resize on a small tensor, at its entry.
Init ==
    \E layout \in DataLayouts, nn \in 1..MaxBatch, cc \in 1..MaxChannels,
       hi \in 1..MaxInput, wi \in 1..MaxInput,
       ho \in 1..MaxOutput, wo \in 1..MaxOutput :
        /\ dataLayout = layout
        /\ inputInfo = MakeShape(layout, nn, cc, hi, wi)
        /\ outputInfo = MakeShape(layout, nn, cc, ho, wo)
        /\ resizeMethod \in ResizeMethods
        /\ scaleY = ScaleOf(hi, ho)
        /\ scaleX = ScaleOf(wi, wo)
        /\ inData \in Specials(nn * cc * hi * wi)
        /\ outData = <<>>
        /\ n = 0 /\ c = 0 /\ y = 0 /\ x = 0
        /\ samples = <<>>
        /\ interpolatedValue = FZero(0)
        /\ pc = "loop"
        /\ trace = <<>>

Spec == Init /\ [][Next]_vars

(***************************************************************************)
(* One pass of the loop body, at any output element.  The height may be    *)
(* one that `float` cannot represent.                                      *)
(***************************************************************************)

\* The heights that `float` cannot represent, or only just.
Tall == {2 ^ MantBits + k : k \in 1..MaxExcess}

\* The rows of an output of height h at which SpecElement runs the body:
\* the first ones and the last ones.
RowsOf(h) ==
    {r \in (0..(MaxOutput - 1)) \cup {h - k : k \in 1..MaxExcess} : r >= 0 /\ r < h}

InitElement ==
    \E layout \in DataLayouts, nn \in 1..MaxBatch, cc \in 1..MaxChannels,
       hi \in (1..MaxInput) \cup Tall, wi \in 1..MaxInput,
       ho \in (1..MaxOutput) \cup Tall, wo \in 1..MaxOutput :
        /\ dataLayout = layout
        /\ inputInfo = MakeShape(layout, nn, cc, hi, wi)
        /\ outputInfo = MakeShape(layout, nn, cc, ho, wo)
        /\ resizeMethod \in ResizeMethods
        /\ scaleY = ScaleOf(hi, ho)
        /\ scaleX = ScaleOf(wi, wo)
        /\ inData \in Specials(nn * cc * hi * wi)
        /\ outData = <<>>
        /\ n \in 0..(nn - 1) /\ c \in 0..(cc - 1)
        /\ y \in RowsOf(ho) /\ x \in 0..(wo - 1)
        /\ samples = <<>>
        /\ interpolatedValue = FZero(0)
        /\ pc = "loop"
        /\ trace = <<>>

\* The loop body runs once.
NextElement ==
    \/ trace = <<>> /\ BilinearBody
    \/ trace = <<>> /\ NearestBody

SpecElement == InitElement /\ [][NextElement]_vars

(***************************************************************************)
(* Properties                                                              *)
(***************************************************************************)

IsWrite(e) == e.op = "write"

\* The Encoder accesses made so far.
Writes == SelectSeq(trace, IsWrite)

\* The loop body has just completed: the last access is its write.
Written == trace # <<>> /\ trace[Len(trace)].op = "write"

\* The write of the pass of the loop body that has just completed.
LastWrite == [at |-> trace[Len(trace)].at, val |-> interpolatedValue]

\* The reads of the pass of the loop body that has just completed.
LastReads == samples

\* All output coordinates.
OutputCoords ==
    (0..(batchSize - 1)) \X (0..(channelCount - 1))
        \X (0..(outputHeight - 1)) \X (0..(outputWidth - 1))

\* Lexicographic order on coordinates (n, c, y, x).
LexLess(a, b) ==
    \E k \in 1..4 : a[k] < b[k] /\ \A j \in 1..(k - 1) : a[j] = b[j]

\* Number of output coordinates that precede coord in the order of the loops.
Preceding(coord) ==
    ((coord[1] * channelCount + coord[2]) * outputHeight + coord[3]) * outputWidth
        + coord[4]

\* C1: a call on valid shapes never aborts, has written one output element
\* per pass of the loop body, never writes an output offset twice, is at an
\* output coordinate as long as it loops (so that the count of writes, which
\* every pass raises, ends the call), and when it returns it has made
\* N*C*Hout*Wout writes, one to the offset of every output coordinate
\* (n, c, y, x).
C1_EveryElementWrittenOnce ==
    LET W == Writes
    IN  /\ pc \in {"loop", "done"}
        /\ pc = "loop" => <<n, c, y, x>> \in OutputCoords
        /\ Cardinality({W[i].idx : i \in DOMAIN W}) = Len(W)
        /\ DOMAIN outData = {W[i].idx : i \in DOMAIN W}
        /\ pc = "loop" => Len(W) = Preceding(<<n, c, y, x>>)
        /\ pc = "done" =>
              /\ Len(W) = batchSize * channelCount * outputHeight * outputWidth
              /\ {<<W[i].at, W[i].idx>> : i \in DOMAIN W}
                   = {<<at, GetIndex(dataLayout, outputInfo, at[1], at[2], at[3], at[4])>> :
                         at \in OutputCoords}

\* C1 witness: a call on two batches of two channels that changes the image
\* size has returned.
C1_Witness ==
    /\ pc = "done"
    /\ batchSize = 2 /\ channelCount = 2
    /\ outputHeight >= 2 /\ outputWidth >= 2
    /\ inputHeight # outputHeight
    /\ Len(Writes) = 4 * outputHeight * outputWidth

\* C2: every read of the Decoder is at a row in [0, Hin) and a column in
\* [0, Win) of the input tensor, at an offset inside the buffer.
C2_ReadsInBounds ==
    /\ \A i \in DOMAIN samples :
          /\ samples[i].row <= inputHeight - 1
          /\ samples[i].col <= inputWidth - 1
          /\ samples[i].idx < GetNumElements(inputInfo)
    /\ \A i \in DOMAIN trace :
          trace[i].op = "read" => trace[i].idx < GetNumElements(inputInfo)

\* C3: when the output has the size of the input, the value written at
\* (n, c, y, x) is the input value at (n, c, y, x), with either method.
C3_IdentityCopies ==
    (Written /\ outputHeight = inputHeight /\ outputWidth = inputWidth) =>
        LastWrite.val = InputAt(LastWrite.at[1], LastWrite.at[2],
                                LastWrite.at[3], LastWrite.at[4])

\* C4: under NearestNeighbor the value written is the input sample at
\* whichever of (x0, y0) and (x1, y1) is nearer to the real coordinate
\* (x*Win/Wout, y*Hin/Hout), (x0, y0) when the distances are equal.  The
\* two distances are compared exactly, scaled by Wout*Hout.
C4_GeometricallyNearest ==
    (Written /\ resizeMethod # "Bilinear") =>
        LET at == LastWrite.at
            ty == TexelY(at[3])
            tx == TexelX(at[4])
            Sq(v) == v * v
            Gap(px, py) ==
                Sq((at[4] * inputWidth - px * outputWidth) * outputHeight)
                    + Sq((at[3] * inputHeight - py * outputHeight) * outputWidth)
        IN  LastWrite.val =
                IF Gap(tx.i0, ty.i0) <= Gap(tx.i1, ty.i1)
                THEN InputAt(at[1], at[2], ty.i0, tx.i0)
                ELSE InputAt(at[1], at[2], ty.i1, tx.i1)

\* The other layout.
OtherLayout == IF dataLayout = "NCHW" THEN "NHWC" ELSE "NCHW"

\* C5: the value written at a logical output coordinate is the value that
\* Resize computes for that coordinate when the same logical input tensor
\* is given in the other layout.
C5_LayoutInvariance ==
    Written =>
        LET other == Interpolate(OtherLayout,
                                 MakeShape(OtherLayout, batchSize, channelCount,
                                           inputHeight, inputWidth),
                                 LastWrite.at)
        IN  {r.interpolatedValue : r \in other} = {LastWrite.val}

\* C5 witness: a blend of four distinct samples has been written in the
\* last channel of the last batch of a channel-last tensor of two batches
\* and two channels.
C5_Witness ==
    /\ Written
    /\ dataLayout = "NHWC" /\ resizeMethod = "Bilinear"
    /\ batchSize = 2 /\ channelCount = 2
    /\ LastWrite.at[1] = 1 /\ LastWrite.at[2] = 1
    /\ Cardinality({LastReads[i].idx : i \in DOMAIN LastReads}) = 4
    /\ TexelY(LastWrite.at[3]).w # FZero(0)
    /\ TexelX(LastWrite.at[4]).w # FZero(0)

\* C6: when Hin = k*Hout and Win = m*Wout, Bilinear has zero weights at
\* every output element and writes at (n, c, y, x) the input sample at
\* (n, c, k*y, m*x).
C6_CornerAligned ==
    (/\ Written /\ resizeMethod = "Bilinear"
     /\ inputHeight % outputHeight = 0 /\ inputWidth % outputWidth = 0) =>
        LET at == LastWrite.at
            k  == inputHeight \div outputHeight
            m  == inputWidth \div outputWidth
        IN  /\ TexelY(at[3]).w = FZero(0)
            /\ TexelX(at[4]).w = FZero(0)
            /\ LastWrite.val = InputAt(at[1], at[2], k * at[3], m * at[4])

\* C7: under NearestNeighbor, when the computed y0 reaches Hin - 1 at some
\* output row, every value written to the last output row is a value of the
\* last input row of the same batch and channel; and likewise for columns.
C7_BoundaryClamp ==
    (Written /\ resizeMethod # "Bilinear") =>
        LET at == LastWrite.at
        IN  /\ (/\ at[3] = outputHeight - 1
                /\ \E yy \in 0..(outputHeight - 1) : TexelY(yy).i0 = inputHeight - 1)
               => LastWrite.val \in {InputAt(at[1], at[2], inputHeight - 1, col) :
                                        col \in 0..(inputWidth - 1)}
            /\ (/\ at[4] = outputWidth - 1
                /\ \E xx \in 0..(outputWidth - 1) : TexelX(xx).i0 = inputWidth - 1)
               => LastWrite.val \in {InputAt(at[1], at[2], row, inputWidth - 1) :
                                        row \in 0..(inputHeight - 1)}

\* C7 witness: the bottom-right output element of an enlarged image of
\* several rows and columns has been written by NearestNeighbor.
C7_Witness ==
    /\ Written /\ resizeMethod = "NearestNeighbor"
    /\ inputHeight >= 2 /\ inputWidth >= 2
    /\ outputHeight > inputHeight /\ outputWidth > inputWidth
    /\ LastWrite.at[3] = outputHeight - 1 /\ LastWrite.at[4] = outputWidth - 1
    /\ TexelY(outputHeight - 1).i0 = inputHeight - 1
    /\ TexelX(outputWidth - 1).i0 = inputWidth - 1

\* lerp(a, b, w) = w*b + (1-w)*a, as the specification states it.
SpecLerp(a, b, w) == FAdd(FMul(w, b), FMul(FSub(One, w), a))

\* 0 <= w < 1
InUnitInterval(w) ==
    /\ w.cls = "num"
    /\ w.man = 0 \/ (w.sign = 0 /\ w.exp <= -MantBits)

C9_WriteOrder ==
    [][LET old  == Len(trace)
           new  == SubSeq(trace', old + 1, Len(trace'))
           here == <<n, c, y, x>>
       IN  /\ Len(new) >= 1
           /\ new[Len(new)].op = "write"
           /\ new[Len(new)].at = here
           /\ new[Len(new)].idx = GetIndex(dataLayout, outputInfo, n, c, y, x)
           /\ \A k \in 1..(Len(new) - 1) : new[k].op = "read" /\ new[k].at = here
           /\ \A i \in 1..old : LexLess(trace[i].at, here)]_vars

\* C9 witness: a Bilinear call on two batches of two channels, with several
\* output rows and columns, has returned.
C9_Witness ==
    /\ pc = "done" /\ resizeMethod = "Bilinear"
    /\ batchSize = 2 /\ channelCount = 2
    /\ outputHeight >= 2 /\ outputWidth >= 2
    /\ Len(trace) = 5 * Len(Writes)

====
